---- MODULE Spec2Model ----
(***************************************************************************)
(* A model of the rate-limiter-rs library: the request key construction,   *)
(* and the three limiters (token bucket, fixed window, sliding window)     *)
(* whose check_request runs one optimistic WATCH / MULTI / EXEC            *)
(* transaction against a shared Redis store.                               *)
(*                                                                         *)
(* Time is counted in ticks, TicksPerSec ticks to a second; a Duration is  *)
(* a number of ticks, a wall-clock reading is a number of ticks since the  *)
(* Unix epoch.  Strings are sequences of one-character strings.            *)
(***************************************************************************)
EXTENDS Bags, Integers, Sequences, FiniteSets, TLC

VARIABLES
    variant,    \* which limiter was built: "TB", "FW" or "SW"
    size,       \* bucket_size / window_size of the limiter
    duration,   \* bucket_validity / window_validity / window_duration, in ticks
    now,        \* the time, in ticks since the epoch (store clock and wall clock)
    store,      \* the Redis store: key -> record
    pc,         \* caller -> "idle" | "exec" (it has sent WATCH and not yet EXEC)
    ident,      \* caller -> the RequestIdentifier of its call
    key,        \* caller -> the request key it built
    ts,         \* caller -> the wall-clock reading of its call (sliding window)
    dirty,      \* caller -> its watched key was touched since its WATCH
    retried,    \* caller -> its current call had an EXEC aborted
    log,        \* the calls that returned, in the order their transactions ran
    lastRetried,\* the call that returned last had an EXEC aborted
    reachable,  \* the store at the limiter's Redis settings accepts connections
    builder,    \* the builder: its three options, and the result of build()
    passed,     \* the value last passed to each setter of the builder
    redis_client, \* the address of the client the limiter holds
    reply,      \* replies of a sliding window transaction, and the response made of them
    middleware, \* the limiter is wrapped by the middleware of the application
    responses   \* the HTTP responses the application sent (a bag)

vars ==
    <<variant, size, duration, now, store, pc, ident, key, ts, dirty, retried, log,
      lastRetried, reachable, builder, passed, redis_client, reply, middleware,
      responses>>

----------------------------------------------------------------------------
(* Bounds of the model *)

\* the largest bucket_size / window_size a limiter is built with
MaxSize == 2
\* the number of check_request calls of one behaviour
MaxCalls == 3
\* the number of ticks the clock advances in one behaviour
MaxTime == 4
\* the longest key or value string of a Custom identifier
MaxStrLen == 2
\* the number of check_request calls of one behaviour of a single caller
MaxSeqCalls == 6
\* the number of ticks the clock advances in one behaviour of a single caller
MaxSeqTime == 6
\* the number of check_request calls of one behaviour with a failing store
MaxStoreCalls == 2
\* the number of ticks the clock advances in one behaviour with a failing store
MaxStoreTime == 2
\* the longest host name of the Redis settings given to a builder
MaxHostLen == 2
\* the largest size given to a builder
MaxBuilderSize == 1
\* the number of check_request calls of one behaviour that starts with a builder
MaxBuildCalls == 2
\* the number of ticks the clock advances in one behaviour that starts with a builder
MaxBuildTime == 1
\* the number of requests of one behaviour the middleware makes a check for
MaxHttpCalls == 2
\* the number of requests of one behaviour answered without a check
MaxHttpOthers == 2
\* the number of ticks the clock advances in one behaviour of the application
MaxHttpTime == 1
\* the greatest request_count a transaction replies, when the replies are drawn
MaxReplyCount == 3
\* the greatest length of the list of timestamps a transaction replies, when drawn
MaxReplyLen == 2
\* the latest clock reading of a check whose replies are drawn, in ticks
MaxReplyTime == 5
\* the number of check_request calls of one behaviour with overtaken calls
MaxStaleCalls == 6
\* the number of ticks the clock advances in one behaviour with overtaken calls
MaxStaleTime == 5

\* the callers (threads or nodes) sharing the limiter
Callers == {1, 2}

\* ticks per second: Duration::as_secs() drops what is left of a second
TicksPerSec == 3

\* the configured durations, in ticks: one second, and a second and a third
Durations == {3, 4}

----------------------------------------------------------------------------
(* Numbers *)

Min(a, b) == IF a <= b THEN a ELSE b

SetMax(S) == CHOOSE m \in S : \A x \in S : x <= m

\* the clock reading of the first state: later than the epoch by the longest window
StartTime == SetMax(Durations)

Max(a, b) == IF a >= b THEN a ELSE b

\* the mutant of as_secs that rounds up to the next whole second
as_secs_RoundUp(d) == (d + TicksPerSec - 1) \div TicksPerSec

\* Duration::as_secs
as_secs(d) == d \div TicksPerSec

\* Duration::from_secs
from_secs(s) == s * TicksPerSec

\* Duration::saturating_sub
saturating_sub(a, b) == IF a >= b THEN a - b ELSE 0

----------------------------------------------------------------------------
(* Request identifiers and request keys *)

\* the characters Custom keys and values are made of (':' is the separator of the key)
Chars == {"a", ":"}

\* the octets of the modelled IPv4 addresses
Octets == {1, 2, 12}

RECURSIVE StringsUpTo(_)
StringsUpTo(n) ==
    IF n = 0 THEN {<<>>}
    ELSE LET shorter == StringsUpTo(n - 1)
         IN  shorter \cup {Append(s, c) : s \in {x \in shorter : Len(x) = n - 1}, c \in Chars}

Ip(addr) == [tag |-> "Ip", ip |-> addr, key |-> <<>>, value |-> <<>>]

Custom(k, v) == [tag |-> "Custom", ip |-> <<>>, key |-> k, value |-> v]

NoIdentifier == [tag |-> "None", ip |-> <<>>, key |-> <<>>, value |-> <<>>]

\* RequestIdentifier: every identifier of the bounded universe
RequestIdentifier ==
    {Ip(<<a, b, c, d>>) : a \in Octets, b \in Octets, c \in Octets, d \in Octets}
    \cup {Ip(<<1, 2, 3, 4>>)}
    \cup {Custom(k, v) : k \in StringsUpTo(MaxStrLen), v \in StringsUpTo(MaxStrLen)}

Digit(n) == <<"0", "1", "2", "3", "4", "5", "6", "7", "8", "9">>[n + 1]

\* Display of an integer: decimal, no leading zero
RECURSIVE Decimal(_)
Decimal(n) == IF n < 10 THEN <<Digit(n)>> ELSE Append(Decimal(n \div 10), Digit(n % 10))

\* Display of an Ipv4Addr: the four octets in decimal, separated by dots
IpDisplay(addr) ==
    Decimal(addr[1]) \o <<".">> \o Decimal(addr[2]) \o <<".">>
        \o Decimal(addr[3]) \o <<".">> \o Decimal(addr[4])

IpPrefix == <<"r", "l", ":", "i", "p", "_">>

CustomPrefix == <<"r", "l", ":", "c", "s", "t", "_">>

\* the mutant of build_request_key that leaves out the separator
build_request_key_NoSeparator(request_identifier) ==
    IF request_identifier.tag = "Ip"
    THEN IpPrefix \o IpDisplay(request_identifier.ip)
    ELSE CustomPrefix \o request_identifier.key \o request_identifier.value

\* build_request_key: format!("rl:ip_{}", ip) / format!("rl:cst_{0}:{1}", key, value)
build_request_key(request_identifier) ==
    IF request_identifier.tag = "Ip"
    THEN IpPrefix \o IpDisplay(request_identifier.ip)
    ELSE CustomPrefix \o request_identifier.key \o <<":">> \o request_identifier.value

\* the identifiers the callers of the limiter use: an address and two client ids
Identities ==
    { Ip(<<1, 2, 1, 2>>),
      Custom(<<"a", ":">>, <<"a">>),
      Custom(<<"a">>, <<":", "a">>) }

\* the addresses of the clients of the HTTP application
ClientIps == {<<1, 2, 1, 2>>, <<2, 1, 2, 1>>}

Keys == {build_request_key(i) : i \in Identities \cup {Ip(a) : a \in ClientIps}}

----------------------------------------------------------------------------
(* The builders *)

\* Option<T>: Some(x)
Some(x) == [some |-> TRUE, v |-> x]

\* Option<u64>, Option<Duration>: None
None == [some |-> FALSE, v |-> 0]

\* Option<RedisSettings>: None
NoSettings == [some |-> FALSE, v |-> [host |-> <<>>, port |-> 0]]

\* Option::unwrap_or
unwrap_or(option, default) == IF option.some THEN option.v ELSE default

DEFAULT_REDIS_HOST == <<"1", "2", "7", ".", "0", ".", "0", ".", "1">>

DEFAULT_REDIS_PORT == 6379

DEFAULT_BUCKET_SIZE == 5

DEFAULT_BUCKET_VALIDITY == from_secs(60)

DEFAULT_WINDOW_SIZE == 5

DEFAULT_WINDOW_DURATION == from_secs(15)

\* the characters of the modelled host names ('@' ends the user part of a URL,
\* a blank is not allowed in the host of a URL)
HostChars == {"h", "@", " "}

RECURSIVE HostsUpTo(_)
HostsUpTo(n) ==
    IF n = 0 THEN {<<>>}
    ELSE LET shorter == HostsUpTo(n - 1)
         IN  shorter \cup {Append(s, c) : s \in {x \in shorter : Len(x) = n - 1},
                                          c \in HostChars}

\* RedisSettings: the settings a builder is given
RedisSettings == [host : HostsUpTo(MaxHostLen), port : {1}]

\* the sizes and the durations (in ticks) a builder is given: none, a third of a
\* second, one second
BuilderSizes == 0..MaxBuilderSize

BuilderDurations == {0, 1, 3}

\* the store address of a limiter that was not built
NoClient == [host |-> <<>>, port |-> 0]

\* the addresses at which a store listens
Listening == {[host |-> DEFAULT_REDIS_HOST, port |-> DEFAULT_REDIS_PORT]}

\* format!("redis://{0}:{1}", host, port)
RedisUrl(host, port) ==
    <<"r", "e", "d", "i", "s", ":", "/", "/">> \o host \o <<":">> \o Decimal(port)

\* the last position of character c in s, 0 when it is not in s
LastIndex(s, c) ==
    LET at == {i \in 1..Len(s) : s[i] = c}
    IN  IF at = {} THEN 0 ELSE SetMax(at)

\* str::parse::<u16> of a string of digits
RECURSIVE ParseDecimal(_)
ParseDecimal(s) ==
    IF Len(s) = 0 THEN 0
    ELSE 10 * ParseDecimal(SubSeq(s, 1, Len(s) - 1))
             + (CHOOSE n \in 0..9 : Digit(n) = s[Len(s)])

\* the mutant of RedisClient::open that connects, and fails when no store listens
open_Connecting(url) ==
    LET authority == SubSeq(url, 9, Len(url))
        hostport == SubSeq(authority, LastIndex(authority, "@") + 1, Len(authority))
        colon == LastIndex(hostport, ":")
        host == SubSeq(hostport, 1, colon - 1)
        port == SubSeq(hostport, colon + 1, Len(hostport))
    IN  IF host = <<>> \/ (\E i \in 1..Len(host) : host[i] = " ")
           \/ [host |-> host, port |-> ParseDecimal(port)] \notin Listening
        THEN [ok |-> FALSE, addr |-> NoClient]
        ELSE [ok |-> TRUE, addr |-> [host |-> host, port |-> ParseDecimal(port)]]

\* RedisClient::open of a redis:// URL: what follows the last '@' of the authority
\* is host:port; the URL is rejected when the host is empty or holds a blank
open(url) ==
    LET authority == SubSeq(url, 9, Len(url))
        hostport == SubSeq(authority, LastIndex(authority, "@") + 1, Len(authority))
        colon == LastIndex(hostport, ":")
        host == SubSeq(hostport, 1, colon - 1)
        port == SubSeq(hostport, colon + 1, Len(hostport))
    IN  IF host = <<>> \/ \E i \in 1..Len(host) : host[i] = " "
        THEN [ok |-> FALSE, addr |-> NoClient]
        ELSE [ok |-> TRUE, addr |-> [host |-> host, port |-> ParseDecimal(port)]]

----------------------------------------------------------------------------
(* The Redis store *)

\* the expiry of a key that has no time to live
NoTTL == -1

Absent == [exists |-> FALSE, val |-> 0, zset |-> {}, exp |-> NoTTL]

\* SETNX key v: set the key if it does not exist
SETNX(r, v) ==
    IF r.exists THEN r ELSE [exists |-> TRUE, val |-> v, zset |-> {}, exp |-> NoTTL]

\* EXPIRE key secs: set the time to live; a timeout that is not positive deletes the key
EXPIRE(r, secs, t) ==
    IF ~r.exists THEN r
    ELSE IF secs <= 0 THEN Absent
    ELSE [r EXCEPT !.exp = t + from_secs(secs)]

\* the mutant of EXPIRE NX that sets the time to live on every check
EXPIRE_NX_Always(r, secs, t) == EXPIRE(r, secs, t)

\* EXPIRE key secs NX: as EXPIRE, only when the key has no time to live
EXPIRE_NX(r, secs, t) ==
    IF r.exists /\ r.exp = NoTTL THEN EXPIRE(r, secs, t) ELSE r

\* the mutant of INCRBY that stops at zero
INCRBY_Clamped(r, d) ==
    IF r.exists THEN [r EXCEPT !.val = Max(@ + d, 0)]
    ELSE [exists |-> TRUE, val |-> Max(d, 0), zset |-> {}, exp |-> NoTTL]

\* INCRBY key d: add d to the key, which counts as 0 when it does not exist
INCRBY(r, d) ==
    IF r.exists THEN [r EXCEPT !.val = @ + d]
    ELSE [exists |-> TRUE, val |-> d, zset |-> {}, exp |-> NoTTL]

\* TTL key: -2 without the key, -1 without a time to live, else the
\* remaining milliseconds rounded to the nearest second
TTL(r, t) ==
    IF ~r.exists THEN -2
    ELSE IF r.exp = NoTTL THEN -1
    ELSE ((((r.exp - t) * 1000) \div TicksPerSec) + 500) \div 1000

\* the mutant of ZREMRANGEBYSCORE whose bound is inclusive: it drops the member at bound too
ZREMRANGEBYSCORE_Inclusive(r, bound) ==
    IF ~r.exists THEN r
    ELSE LET kept == {m \in r.zset : m > bound}
         IN  IF kept = {} THEN Absent ELSE [r EXCEPT !.zset = kept]

\* ZREMRANGEBYSCORE key -inf (bound: drop the members below bound; an empty set is deleted
ZREMRANGEBYSCORE(r, bound) ==
    IF ~r.exists THEN r
    ELSE LET kept == {m \in r.zset : m >= bound}
         IN  IF kept = {} THEN Absent ELSE [r EXCEPT !.zset = kept]

\* ZADD key NX score member (score = member): add the member unless it is there
ZADD_NX(r, m) ==
    IF r.exists THEN [r EXCEPT !.zset = @ \cup {m}]
    ELSE [exists |-> TRUE, val |-> 0, zset |-> {m}, exp |-> NoTTL]

\* ZCOUNT key -inf +inf
ZCOUNT(r) == IF r.exists THEN Cardinality(r.zset) ELSE 0

\* ZREVRANGEBYSCORE key +inf -inf LIMIT 0 n: the n greatest members, greatest first
RECURSIVE ZREVRANGEBYSCORE(_, _)
ZREVRANGEBYSCORE(S, n) ==
    IF n = 0 \/ S = {} THEN <<>>
    ELSE <<SetMax(S)>> \o ZREVRANGEBYSCORE(S \ {SetMax(S)}, n - 1)

----------------------------------------------------------------------------
(* Responses *)

RequestAllowed(remaining_request_counter) ==
    [kind |-> "Allowed", val |-> remaining_request_counter]

RequestThrottled(retry_in) == [kind |-> "Throttled", val |-> retry_in]

\* Err(RateLimiterError::IoError): a reply that does not convert, a failed connection
IoError == [kind |-> "IoError", val |-> 0]

\* Err(RateLimiterError::InitError)
InitError == [kind |-> "InitError", val |-> 0]

\* some of the kinds of error the redis client reports (redis::ErrorKind)
RedisErrorKinds == {"IoError", "ResponseError", "TypeError", "InvalidClientConfig"}

\* the mutant of the conversion that reports every error of the client as InitError
From_AlwaysInit(redis_error_kind) == InitError

\* impl From<RedisError> for RateLimiterError
From(redis_error_kind) ==
    IF redis_error_kind = "InvalidClientConfig" THEN InitError ELSE IoError

\* Err(RateLimiterError::ComputeError)
ComputeError == [kind |-> "ComputeError", val |-> 0]

\* the call did not return: arithmetic overflow panicked (a build with overflow checks)
Panicked == [kind |-> "Panic", val |-> 0]

----------------------------------------------------------------------------
(* The transactions of the three limiters, and the responses made of their replies *)

\* u64::MAX, scaled to the integers of the checker
U64_MAX == 1048575

\* "current_ts_epoch_time as u64": the cast of the u128 count of nanoseconds keeps
\* its low bits, whatever the count
as_u64(v) == v % (U64_MAX + 1)

\* FromRedisValue for u64 of an integer reply.  A reply that is not negative is
\* itself.  A negative reply is cast, which wraps it, or, with a client that
\* checks the range, is a TypeError: the reply is then left negative.
from_redis_value_u64(v) == IF v >= 0 THEN {v} ELSE {v + U64_MAX + 1, v}

\* the mutant of the token bucket's pipeline that sets the bucket on every check
TokenBucketTransaction_Set(r, t) ==
    LET r1 == [exists |-> TRUE, val |-> size, zset |-> {}, exp |-> r.exp]
        r2 == EXPIRE_NX(r1, as_secs(duration), t)
        r3 == INCRBY(r2, -1)
    IN  [rec |-> r3, remaining_tokens |-> r3.val, expire_in_seconds |-> TTL(r3, t)]

\* token bucket: SETNX key bucket_size, EXPIRE key secs NX, INCRBY key -1, TTL key
TokenBucketTransaction(r, t) ==
    LET r1 == SETNX(r, size)
        r2 == EXPIRE_NX(r1, as_secs(duration), t)
        r3 == INCRBY(r2, -1)
    IN  [rec |-> r3, remaining_tokens |-> r3.val, expire_in_seconds |-> TTL(r3, t)]

\* the mutant of the token bucket's decision that throttles the last token
TokenBucketResponse_Strict(remaining_tokens, expire_in_seconds) ==
    IF expire_in_seconds < 0 THEN IoError
    ELSE IF remaining_tokens > 0 THEN RequestAllowed(remaining_tokens)
    ELSE RequestThrottled(from_secs(expire_in_seconds))

\* token bucket: the replies are read as (i64, u64); a negative TTL does not convert
TokenBucketResponse(remaining_tokens, expire_in_seconds) ==
    IF expire_in_seconds < 0 THEN IoError
    ELSE IF remaining_tokens >= 0 THEN RequestAllowed(remaining_tokens)
    ELSE RequestThrottled(from_secs(expire_in_seconds))

\* the mutant of the fixed window's pipeline that creates the counter at 1
FixedWindowTransaction_FromOne(r, t) ==
    LET r1 == SETNX(r, 1)
        r2 == EXPIRE_NX(r1, as_secs(duration), t)
        r3 == INCRBY(r2, 1)
    IN  [rec |-> r3, executed_request_counter |-> r3.val,
         expire_in_seconds |-> TTL(r3, t)]

\* fixed window: SETNX key 0, EXPIRE key secs NX, INCRBY key 1, TTL key
FixedWindowTransaction(r, t) ==
    LET r1 == SETNX(r, 0)
        r2 == EXPIRE_NX(r1, as_secs(duration), t)
        r3 == INCRBY(r2, 1)
    IN  [rec |-> r3, executed_request_counter |-> r3.val,
         expire_in_seconds |-> TTL(r3, t)]

\* fixed window: the replies are read as (u64, u64)
FixedWindowResponse(executed_request_counter, expire_in_seconds) ==
    IF executed_request_counter < 0 \/ expire_in_seconds < 0 THEN IoError
    ELSE IF executed_request_counter <= size
    THEN RequestAllowed(size - executed_request_counter)
    ELSE RequestThrottled(from_secs(expire_in_seconds))

\* the LIMIT of the sliding window's ZREVRANGEBYSCORE
RevRangeLimit == 5

\* sliding window: ZREMRANGEBYSCORE key -inf (window_start, ZADD key NX ts ts,
\* ZCOUNT key -inf +inf, ZREVRANGEBYSCORE key +inf -inf LIMIT 0 5, EXPIRE key secs
SlidingWindowTransaction(r, t, current_ts_epoch_time, window_start_epoch_time) ==
    LET r1 == ZREMRANGEBYSCORE(r, window_start_epoch_time)
        r2 == ZADD_NX(r1, current_ts_epoch_time)
        r3 == EXPIRE(r2, as_secs(duration), t)
    IN  [rec |-> r3, request_count |-> ZCOUNT(r2),
         oldest_requests_in_current_window |-> ZREVRANGEBYSCORE(r2.zset, RevRangeLimit)]

\* sliding window: the responses the replies can give.  The subtraction
\* current_ts_epoch_time - oldest_request_epoch_time is unsigned: when it would be
\* negative, a build with overflow checks panics, and one without wraps to a span
\* longer than any window, which saturates retry_in to zero.
SlidingWindowResponses(request_count, oldest_requests_in_current_window, current_ts_epoch_time) ==
    LET l == oldest_requests_in_current_window
        oldest_request_epoch_time == IF Len(l) = 0 THEN 0 ELSE l[Len(l)]
    IN  IF request_count <= size THEN {RequestAllowed(size - request_count)}
        ELSE IF current_ts_epoch_time < oldest_request_epoch_time
        THEN {Panicked, RequestThrottled(0)}
        ELSE {RequestThrottled(saturating_sub(duration,
                  current_ts_epoch_time - oldest_request_epoch_time))}

----------------------------------------------------------------------------
(* The state machine *)

Live(r, t) == r.exists /\ (r.exp = NoTTL \/ t < r.exp)

\* no transaction was replied to
NoReply == [request_count |-> 0, oldest_requests_in_current_window |-> <<>>,
            current_ts_epoch_time |-> 0, response |-> [kind |-> "", val |-> 0]]

\* the limiter a builder returned (durations of a second or more), no call made yet,
\* with the system clock at one of the readings given
BuiltAt(variants, stores, readings) ==
    /\ variant \in variants
    /\ reachable \in stores
    /\ size \in 1..MaxSize
    /\ duration \in Durations
    /\ redis_client = IF reachable
                      THEN [host |-> DEFAULT_REDIS_HOST, port |-> DEFAULT_REDIS_PORT]
                      ELSE [host |-> <<"h">>, port |-> 1]
    /\ builder = [size |-> Some(size), duration |-> Some(duration),
                  redis_settings |-> IF reachable THEN NoSettings ELSE Some(redis_client),
                  result |-> "Ok"]
    /\ passed = [size |-> builder.size, duration |-> builder.duration,
                 redis_settings |-> builder.redis_settings]
    /\ reply = NoReply
    /\ middleware = FALSE
    /\ responses = EmptyBag
    /\ now \in readings
    /\ store = [k \in Keys |-> Absent]
    /\ pc = [p \in Callers |-> "idle"]
    /\ ident = [p \in Callers |-> NoIdentifier]
    /\ key = [p \in Callers |-> <<>>]
    /\ ts = [p \in Callers |-> 0]
    /\ dirty = [p \in Callers |-> FALSE]
    /\ retried = [p \in Callers |-> FALSE]
    /\ log = <<>>
    /\ lastRetried = FALSE

BuiltFor(variants, stores) == BuiltAt(variants, stores, {StartTime})

\* the limiter of a store that is reachable
Built(variants) == BuiltFor(variants, {TRUE})

Init == Built({"TB", "FW", "SW"})

InFlight == {p \in Callers : pc[p] # "idle"}

\* the identifiers checks are made for; the sliding window is followed for one of them
Requesters ==
    IF variant = "SW" THEN {Custom(<<"a">>, <<":", "a">>)} ELSE Identities

\* the record of a call that returned
Returned(p, response, fresh) ==
    [id |-> ident[p], key |-> key[p], kind |-> response.kind, val |-> response.val,
     at |-> now, ts |-> ts[p], fresh |-> fresh,
     cause |-> IF response.kind = IoError.kind THEN "TypeError" ELSE ""]

\* the record of a call for id that returned the error response; cause is the kind
\* of the redis client's error, "" when the error is not one of the client
Failed(id, response, cause, reading) ==
    [id |-> id, key |-> build_request_key(id), kind |-> response.kind,
     val |-> response.val, at |-> now, ts |-> reading, fresh |-> FALSE, cause |-> cause]

\* StatusCode::OK, BAD_REQUEST, TOO_MANY_REQUESTS, INTERNAL_SERVER_ERROR
OK == 200

BAD_REQUEST == 400

TOO_MANY_REQUESTS == 429

INTERNAL_SERVER_ERROR == 500

\* enum ApiError
ApiRequestThrottled(retry_after_seconds) ==
    [kind |-> "RequestThrottled", retry_after_seconds |-> retry_after_seconds]

ApiInvalidRequest == [kind |-> "InvalidRequest", retry_after_seconds |-> 0]

ApiInternal == [kind |-> "Internal", retry_after_seconds |-> 0]

\* ApiError::status_code
status_code(api_error) ==
    CASE api_error.kind = "RequestThrottled" -> TOO_MANY_REQUESTS
      [] api_error.kind = "InvalidRequest" -> BAD_REQUEST
      [] api_error.kind = "Internal" -> INTERNAL_SERVER_ERROR

\* ApiError::error_response: the inner service is not called (forwarded = 0); the
\* throttled response has the Retry-After header and a body
error_response(api_error) ==
    [status |-> status_code(api_error), forwarded |-> 0, x_remaining_request |-> None,
     retry_after |-> IF api_error.kind = "RequestThrottled"
                     THEN Some(api_error.retry_after_seconds) ELSE None,
     body |-> IF api_error.kind = "RequestThrottled" THEN "You've been throttled!" ELSE ""]

\* the response of the inner service to a request forwarded to it: get_intensity
get_intensity ==
    [status |-> OK, forwarded |-> 1, x_remaining_request |-> None, retry_after |-> None,
     body |-> "CarbonIntensityData"]

\* the mutant of the middleware that fails closed: an error of the check is
\* answered 500 and the request is not forwarded
call_FailClosed(rate_limiter_response) ==
    CASE rate_limiter_response.kind = "Allowed" ->
             [get_intensity EXCEPT !.x_remaining_request = Some(rate_limiter_response.val)]
      [] rate_limiter_response.kind = "Throttled" ->
             error_response(ApiRequestThrottled(as_secs(rate_limiter_response.val)))
      [] OTHER -> error_response(ApiInternal)

\* ApiRateLimiterMiddleware::call once check_request returned: an allowed request
\* is forwarded and the response gets the X-Remaining-Request header, a throttled
\* one is answered by the error response, and on an error of the check the request
\* is forwarded and the response of the inner service is returned as it is
call(rate_limiter_response) ==
    CASE rate_limiter_response.kind = "Allowed" ->
             [get_intensity EXCEPT !.x_remaining_request = Some(rate_limiter_response.val)]
      [] rate_limiter_response.kind = "Throttled" ->
             error_response(ApiRequestThrottled(as_secs(rate_limiter_response.val)))
      [] OTHER -> get_intensity

\* the response sent to the request of address ip on path; entry is the place in
\* the log of the check made for the request, 0 when none was made
Sent(path, ip, entry, response) ==
    [path |-> path, ip |-> ip, entry |-> entry, status |-> response.status,
     forwarded |-> response.forwarded, x_remaining_request |-> response.x_remaining_request,
     retry_after |-> response.retry_after, body |-> response.body]

\* the responses once the check recorded as entry returned: a limiter used through
\* the middleware answers the request; a check that panicked answers nothing
Served(entry) ==
    IF middleware /\ entry.kind # Panicked.kind
    THEN responses (+) SetToBag({Sent("/carbon/intensity", entry.id.ip, Len(log) + 1,
                                      call([kind |-> entry.kind, val |-> entry.val]))})
    ELSE responses

\* check_request up to the first EXEC: the key is built, the sliding window reads
\* the wall clock (once: a retry uses the same reading), and redis::transaction
\* sends WATCH.  The lowest idle caller begins; a behaviour has at most calls calls.
BeginWithin(p, id, calls) ==
    /\ builder.result = "Ok"
    /\ pc[p] = "idle"
    /\ \A q \in Callers : q < p => pc[q] # "idle"
    /\ Len(log) + Cardinality(InFlight) < calls
    /\ IF ~reachable
       THEN \* get_connection fails, before anything else is done
            /\ log' = Append(log, Failed(id, From("IoError"), "IoError", 0))
            /\ responses' = Served(Failed(id, From("IoError"), "IoError", 0))
            /\ lastRetried' = FALSE
            /\ UNCHANGED <<pc, ident, key, ts>>
       ELSE IF variant = "SW" /\ now - duration < 0
       THEN \* as_epoch_time(window_start_ts) fails before the epoch
            /\ log' = Append(log, Failed(id, ComputeError, "", now))
            /\ responses' = Served(Failed(id, ComputeError, "", now))
            /\ lastRetried' = FALSE
            /\ UNCHANGED <<pc, ident, key, ts>>
       ELSE /\ UNCHANGED <<log, lastRetried, responses>>
            /\ pc' = [pc EXCEPT ![p] = "exec"]
            /\ ident' = [ident EXCEPT ![p] = id]
            /\ key' = [key EXCEPT ![p] = build_request_key(id)]
            /\ ts' = [ts EXCEPT ![p] = IF variant = "SW" THEN now ELSE 0]
    /\ retried' = [retried EXCEPT ![p] = FALSE]
    /\ dirty' = [dirty EXCEPT ![p] = FALSE]
    /\ UNCHANGED <<builder, passed, redis_client, reply, middleware,
                   reachable, variant, size, duration, now, store>>

Begin(p, id) == BeginWithin(p, id, MaxCalls)

\* the mutant of the aborted EXEC whose queued INCRBY took effect all the same
Abort_Applying(p) ==
    /\ pc[p] = "exec"
    /\ dirty[p]
    /\ dirty' = [dirty EXCEPT ![p] = FALSE]
    /\ retried' = [retried EXCEPT ![p] = TRUE]
    /\ store' = [store EXCEPT ![key[p]] = INCRBY(@, IF variant = "TB" THEN -1 ELSE 1)]
    /\ UNCHANGED <<builder, passed, redis_client, reply, middleware, responses,
                   reachable, variant, size, duration, now, pc, ident, key, ts, log,
                   lastRetried>>

\* redis::transaction: EXEC replies nil because the watched key was touched;
\* the loop sends WATCH again and runs the pipeline again
Abort(p) ==
    /\ pc[p] = "exec"
    /\ dirty[p]
    /\ dirty' = [dirty EXCEPT ![p] = FALSE]
    /\ retried' = [retried EXCEPT ![p] = TRUE]
    /\ UNCHANGED <<builder, passed, redis_client, reply, middleware, responses,
                   reachable, variant, size, duration, now, store, pc, ident, key, ts, log,
                   lastRetried>>

\* EXEC runs the queued commands as one step; the call returns its response
\* the callers are interchangeable connections: when caller p returns, the calls
\* still in flight move down to the lowest callers and the last caller is idle
Packed(f, p, idle) ==
    [q \in Callers |-> IF q < p THEN f[q] ELSE IF q + 1 \in Callers THEN f[q + 1] ELSE idle]

Commit(p, rec, response) ==
    /\ store' = [store EXCEPT ![key[p]] = rec]
    /\ dirty' = Packed([q \in Callers |->
                    IF q # p /\ pc[q] = "exec" /\ key[q] = key[p] THEN TRUE ELSE dirty[q]],
                    p, FALSE)
    /\ log' = Append(log, Returned(p, response, ~store[key[p]].exists))
    /\ responses' = Served(Returned(p, response, ~store[key[p]].exists))
    /\ lastRetried' = retried[p]
    /\ pc' = Packed(pc, p, "idle")
    /\ ident' = Packed(ident, p, NoIdentifier)
    /\ key' = Packed(key, p, <<>>)
    /\ ts' = Packed(ts, p, 0)
    /\ retried' = Packed(retried, p, FALSE)
    /\ UNCHANGED <<builder, passed, redis_client, reply, middleware,
                   reachable, variant, size, duration, now>>

\* the client reports an error of kind redis_error_kind while the transaction of
\* caller p is under way and before the store ran it: the ? operator returns it,
\* converted
Fail(p, redis_error_kind) ==
    /\ pc[p] = "exec"
    /\ log' = Append(log, Failed(ident[p], From(redis_error_kind), redis_error_kind, ts[p]))
    /\ responses' =
           Served(Failed(ident[p], From(redis_error_kind), redis_error_kind, ts[p]))
    /\ lastRetried' = retried[p]
    /\ pc' = Packed(pc, p, "idle")
    /\ ident' = Packed(ident, p, NoIdentifier)
    /\ key' = Packed(key, p, <<>>)
    /\ ts' = Packed(ts, p, 0)
    /\ dirty' = Packed(dirty, p, FALSE)
    /\ retried' = Packed(retried, p, FALSE)
    /\ UNCHANGED <<builder, passed, redis_client, reply, middleware,
                   reachable, variant, size, duration, now, store>>

\* TokenBucketRateLimiter::check_request
TokenBucketCheck(p) ==
    /\ variant = "TB"
    /\ pc[p] = "exec"
    /\ ~dirty[p]
    /\ LET tx == TokenBucketTransaction(store[key[p]], now)
       IN  \E expire_in_seconds \in from_redis_value_u64(tx.expire_in_seconds) :
               Commit(p, tx.rec, TokenBucketResponse(tx.remaining_tokens, expire_in_seconds))

\* FixedWindowRateLimiter::check_request
FixedWindowCheck(p) ==
    /\ variant = "FW"
    /\ pc[p] = "exec"
    /\ ~dirty[p]
    /\ LET tx == FixedWindowTransaction(store[key[p]], now)
       IN  \E expire_in_seconds \in from_redis_value_u64(tx.expire_in_seconds) :
               Commit(p, tx.rec,
                      FixedWindowResponse(tx.executed_request_counter, expire_in_seconds))

\* SlidingWindowRateLimiter::check_request
SlidingWindowCheck(p) ==
    /\ variant = "SW"
    /\ pc[p] = "exec"
    /\ ~dirty[p]
    /\ LET tx == SlidingWindowTransaction(store[key[p]], now, as_u64(ts[p]),
                                          ts[p] - duration)
       IN  \E response \in SlidingWindowResponses(tx.request_count,
                               tx.oldest_requests_in_current_window, as_u64(ts[p])) :
               Commit(p, tx.rec, response)

\* time passes: the store drops the keys whose time to live is over, which
\* touches them for the callers watching them.  The clock is followed until the
\* last call of the behaviour has returned.
TickWithin(time, calls) ==
    /\ now < StartTime + time
    /\ Len(log) < calls
    /\ now' = now + 1
    /\ store' = [k \in Keys |-> IF Live(store[k], now + 1) THEN store[k] ELSE Absent]
    /\ dirty' = [q \in Callers |->
                    IF pc[q] = "exec" /\ store[key[q]].exists
                       /\ ~Live(store[key[q]], now + 1)
                    THEN TRUE ELSE dirty[q]]
    /\ UNCHANGED <<builder, passed, redis_client, reply, middleware, responses,
                   reachable, variant, size, duration, pc, ident, key, ts, retried, log,
                   lastRetried>>

Tick == TickWithin(MaxTime, MaxCalls)

\* the three limiters
Next ==
    \/ \E p \in Callers, id \in Requesters : Begin(p, id)
    \/ \E p \in Callers : Abort(p)
    \/ \E p \in Callers : TokenBucketCheck(p)
    \/ \E p \in Callers : FixedWindowCheck(p)
    \/ \E p \in Callers : SlidingWindowCheck(p)
    \/ Tick

Spec == Init /\ [][Next]_vars

\* the two counter limiters: token bucket and fixed window
InitCounter == Built({"TB", "FW"})

NextCounter ==
    \/ \E p \in Callers, id \in Requesters : Begin(p, id)
    \/ \E p \in Callers : Abort(p)
    \/ \E p \in Callers : TokenBucketCheck(p)
    \/ \E p \in Callers : FixedWindowCheck(p)
    \/ Tick

SpecCounter == InitCounter /\ [][NextCounter]_vars

\* the sliding window limiter
InitSW == Built({"SW"})

NextSW ==
    \/ \E p \in Callers, id \in Requesters : Begin(p, id)
    \/ \E p \in Callers : Abort(p)
    \/ \E p \in Callers : SlidingWindowCheck(p)
    \/ Tick

SpecSW == InitSW /\ [][NextSW]_vars

\* a counter limiter with a single caller checking one identifier, one call after
\* the other, for longer
SeqIdentity == Custom(<<"a">>, <<":", "a">>)

BeginSeq == BeginWithin(1, SeqIdentity, MaxSeqCalls)

TickSeq == TickWithin(MaxSeqTime, MaxSeqCalls)

InitSeq == Built({"TB", "FW"})

NextSeq ==
    \/ BeginSeq
    \/ Abort(1)
    \/ TokenBucketCheck(1)
    \/ FixedWindowCheck(1)
    \/ TickSeq

SpecSeq == InitSeq /\ [][NextSeq]_vars

\* the default duration of the builder of each variant
DefaultDuration ==
    IF variant = "TB" THEN DEFAULT_BUCKET_VALIDITY ELSE DEFAULT_WINDOW_DURATION

\* the default size of the builder of each variant
DefaultSize == IF variant = "TB" THEN DEFAULT_BUCKET_SIZE ELSE DEFAULT_WINDOW_SIZE

\* with_bucket_size / with_window_size
with_window_size(v) ==
    /\ builder.result = "none"
    /\ builder' = [builder EXCEPT !.size = Some(v)]
    /\ passed' = [passed EXCEPT !.size = Some(v)]
    /\ UNCHANGED <<redis_client, reply, middleware, responses, reachable, variant, size,
                   duration, now, store, pc, ident, key, ts, dirty, retried, log,
                   lastRetried>>

\* with_bucket_validity / with_window_duration
with_window_duration(d) ==
    /\ builder.result = "none"
    /\ builder' = [builder EXCEPT !.duration = Some(d)]
    /\ passed' = [passed EXCEPT !.duration = Some(d)]
    /\ UNCHANGED <<redis_client, reply, middleware, responses, reachable, variant, size,
                   duration, now, store, pc, ident, key, ts, dirty, retried, log,
                   lastRetried>>

\* with_redis_settings
with_redis_settings(rs) ==
    /\ builder.result = "none"
    /\ builder' = [builder EXCEPT !.redis_settings = Some(rs)]
    /\ passed' = [passed EXCEPT !.redis_settings = Some(rs)]
    /\ UNCHANGED <<redis_client, reply, middleware, responses, reachable, variant, size,
                   duration, now, store, pc, ident, key, ts, dirty, retried, log,
                   lastRetried>>

\* build: the client is opened on the URL made of the settings (no connection is
\* made), and the limiter gets the options or their defaults
build ==
    /\ builder.result = "none"
    /\ LET rs == unwrap_or(builder.redis_settings,
                           [host |-> DEFAULT_REDIS_HOST, port |-> DEFAULT_REDIS_PORT])
           client == open(RedisUrl(rs.host, rs.port))
       IN  IF client.ok
           THEN /\ builder' = [builder EXCEPT !.result = "Ok"]
                /\ size' = unwrap_or(builder.size, DefaultSize)
                /\ duration' = unwrap_or(builder.duration, DefaultDuration)
                /\ redis_client' = client.addr
                /\ reachable' = (client.addr \in Listening)
           ELSE /\ builder' = [builder EXCEPT !.result = From("InvalidClientConfig").kind]
                /\ UNCHANGED <<size, duration, redis_client, reachable>>
    /\ UNCHANGED <<passed, reply, middleware, responses, variant, now, store, pc, ident,
                   key, ts, dirty, retried, log, lastRetried>>

\* the clock reading of the first state of a behaviour that starts with a builder:
\* later than the epoch by the longest default
BuildStartTime == Max(DEFAULT_BUCKET_VALIDITY, DEFAULT_WINDOW_DURATION)

\* a builder of one of the three variants, as the factory returns it; nothing is
\* built yet
InitBuild ==
    /\ variant \in {"TB", "FW", "SW"}
    /\ builder = [size |-> None, duration |-> None, redis_settings |-> NoSettings,
                  result |-> "none"]
    /\ passed = [size |-> None, duration |-> None, redis_settings |-> NoSettings]
    /\ size = 0
    /\ duration = 0
    /\ redis_client = NoClient
    /\ reachable = FALSE
    /\ reply = NoReply
    /\ middleware = FALSE
    /\ responses = EmptyBag
    /\ now = BuildStartTime
    /\ store = [k \in Keys |-> Absent]
    /\ pc = [p \in Callers |-> "idle"]
    /\ ident = [p \in Callers |-> NoIdentifier]
    /\ key = [p \in Callers |-> <<>>]
    /\ ts = [p \in Callers |-> 0]
    /\ dirty = [p \in Callers |-> FALSE]
    /\ retried = [p \in Callers |-> FALSE]
    /\ log = <<>>
    /\ lastRetried = FALSE

BeginBuild(p) == BeginWithin(p, SeqIdentity, MaxBuildCalls)

\* time is followed once the limiter is built
TickBuild ==
    /\ builder.result = "Ok"
    /\ TickWithin(BuildStartTime - StartTime + MaxBuildTime, MaxBuildCalls)

NextBuild ==
    \/ \E v \in BuilderSizes : with_window_size(v)
    \/ \E d \in BuilderDurations : with_window_duration(d)
    \/ \E rs \in RedisSettings : with_redis_settings(rs)
    \/ build
    \/ \E p \in Callers : BeginBuild(p)
    \/ \E p \in Callers : Abort(p)
    \/ \E p \in Callers : TokenBucketCheck(p)
    \/ \E p \in Callers : FixedWindowCheck(p)
    \/ \E p \in Callers : SlidingWindowCheck(p)
    \/ TickBuild

SpecBuild == InitBuild /\ [][NextBuild]_vars

\* the three limiters, of a store that is reachable or not, and whose client can
\* report an error during a transaction; checks are made for every identifier
\* when the store is unreachable, and followed for one identifier when it is not
InitStore == BuiltFor({"TB", "FW", "SW"}, BOOLEAN)

RequestersStore == IF reachable THEN {SeqIdentity} ELSE Identities

BeginStore(p, id) == BeginWithin(p, id, MaxStoreCalls)

TickStore == TickWithin(MaxStoreTime, MaxStoreCalls)

NextStore ==
    \/ \E p \in Callers, id \in RequestersStore : BeginStore(p, id)
    \/ \E p \in Callers : Abort(p)
    \/ \E p \in Callers, k \in RedisErrorKinds : Fail(p, k)
    \/ \E p \in Callers : TokenBucketCheck(p)
    \/ \E p \in Callers : FixedWindowCheck(p)
    \/ \E p \in Callers : SlidingWindowCheck(p)
    \/ TickStore

SpecStore == InitStore /\ [][NextStore]_vars

\* the sliding window of one identifier with calls that read the clock and are
\* overtaken by later calls, for longer
InitStale == Built({"SW"}) /\ size = 1 /\ duration = SetMax(Durations)

BeginStale(p) == BeginWithin(p, SeqIdentity, MaxStaleCalls)

TickStale == TickWithin(MaxStaleTime, MaxStaleCalls)

NextStale ==
    \/ \E p \in Callers : BeginStale(p)
    \/ \E p \in Callers : Abort(p)
    \/ \E p \in Callers : SlidingWindowCheck(p)
    \/ TickStale

SpecStale == InitStale /\ [][NextStale]_vars

\* the lists of timestamps ZREVRANGEBYSCORE can reply to a check that read the
\* clock at t: at most n members, newest first, the empty list among them
RECURSIVE RepliedLists(_, _)
RepliedLists(n, t) ==
    IF n = 0 THEN {<<>>}
    ELSE LET shorter == RepliedLists(n - 1, t)
         IN  shorter \cup
             UNION {{Append(l, m) : m \in {x \in 0..t : n = 1 \/ x < l[n - 1]}} :
                    l \in {x \in shorter : Len(x) = n - 1}}

\* SlidingWindowRateLimiter::check_request after the transaction: the response is
\* computed of the replies (request_count, oldest_requests_in_current_window) and
\* of the clock reading, which is not before window_duration after the epoch (the
\* start of the window was converted to epoch time before the transaction)
SlidingWindowReply(request_count, oldest_requests_in_current_window, current_ts_epoch_time) ==
    /\ current_ts_epoch_time >= duration
    /\ \E response \in SlidingWindowResponses(request_count,
                            oldest_requests_in_current_window, current_ts_epoch_time) :
           reply' = [request_count |-> request_count,
                     oldest_requests_in_current_window |-> oldest_requests_in_current_window,
                     current_ts_epoch_time |-> current_ts_epoch_time,
                     response |-> response]
    /\ UNCHANGED <<builder, passed, redis_client, middleware, responses, reachable, variant,
                   size, duration, now, store, pc, ident, key, ts, dirty, retried, log,
                   lastRetried>>

\* the sliding window's response as a function of the replies of its transaction
InitReply == Built({"SW"})

NextReply ==
    \E request_count \in 0..MaxReplyCount, t \in 0..MaxReplyTime :
        \E l \in RepliedLists(MaxReplyLen, t) : SlidingWindowReply(request_count, l, t)

SpecReply == InitReply /\ [][NextReply]_vars

\* the parts of s between the occurrences of character c
RECURSIVE SplitOn(_, _)
SplitOn(s, c) ==
    LET at == {i \in 1..Len(s) : s[i] = c}
    IN  IF at = {} THEN <<s>>
        ELSE SplitOn(SubSeq(s, 1, SetMax(at) - 1), c)
                 \o <<SubSeq(s, SetMax(at) + 1, Len(s))>>

\* a string of one to three decimal digits
IsOctet(s) ==
    /\ Len(s) \in 1..3
    /\ \A i \in 1..Len(s) : \E n \in 0..9 : Digit(n) = s[i]

\* str::parse::<IpAddr> of a dotted address: four octets of at most 255
parse(s) ==
    LET parts == SplitOn(s, ".")
    IN  IF /\ Len(parts) = 4
           /\ \A i \in 1..4 : IsOctet(parts[i]) /\ ParseDecimal(parts[i]) <= 255
        THEN [ok |-> TRUE, addr |-> [i \in 1..4 |-> ParseDecimal(parts[i])]]
        ELSE [ok |-> FALSE, addr |-> <<>>]

\* no address of the client is known
NoAddr == [some |-> FALSE, v |-> <<>>]

\* what realip_remote_addr() can return for a request: nothing, what an
\* X-Forwarded-For header holds that is no address, or the address of a client
RealIps == {NoAddr, Some(<<"a">>)} \cup {Some(IpDisplay(a)) : a \in ClientIps}

\* Application::build: the limiter is wrapped by the middleware of the scope
\* /carbon/intensity, and the server starts
Application_build ==
    /\ ~middleware
    /\ middleware' = TRUE
    /\ UNCHANGED <<builder, passed, redis_client, reply, responses, reachable, variant,
                   size, duration, now, store, pc, ident, key, ts, dirty, retried, log,
                   lastRetried>>

\* the responses to the requests answered without a check of the limiter
Unchecked ==
    [r \in {x \in BagToSet(responses) : x.entry = 0} |-> CopiesIn(r, responses)]

\* a worker that is not blocked in a check sends a response, and nothing else
\* happens
Answer(path, ip, response) ==
    /\ \E p \in Callers : pc[p] = "idle"
    /\ BagCardinality(Unchecked) < MaxHttpOthers
    /\ responses' = responses (+) SetToBag({Sent(path, ip, 0, response)})
    /\ UNCHANGED <<builder, passed, redis_client, reply, middleware, reachable, variant,
                   size, duration, now, store, pc, ident, key, ts, dirty, retried, log,
                   lastRetried>>

\* the mutant of the route /health_check that counts the request on the key of
\* the client
health_check_Counted(ip) ==
    /\ middleware
    /\ \E p \in Callers : pc[p] = "idle"
    /\ BagCardinality(Unchecked) < MaxHttpOthers
    /\ responses' = responses (+) SetToBag({Sent("/health_check", ip, 0,
           [status |-> OK, forwarded |-> 0, x_remaining_request |-> None,
            retry_after |-> None, body |-> "I'm up and running."])})
    /\ store' = [store EXCEPT ![build_request_key(Ip(ip))] = INCRBY(@, -1)]
    /\ UNCHANGED <<builder, passed, redis_client, reply, middleware, reachable, variant,
                   size, duration, now, pc, ident, key, ts, dirty, retried, log,
                   lastRetried>>

\* GET /health_check of the client at ip: the route is outside the scope the
\* middleware wraps
health_check(ip) ==
    /\ middleware
    /\ Answer("/health_check", ip,
              [status |-> OK, forwarded |-> 0, x_remaining_request |-> None,
               retry_after |-> None, body |-> "I'm up and running."])

\* GET /carbon/intensity, ApiRateLimiterMiddleware::call up to the first EXEC of
\* check_request: a request without an address is answered 400, one whose address
\* does not parse 500, and the check is made for the address of the others
get_carbon_intensity(p, realip) ==
    /\ middleware
    /\ pc[p] = "idle"
    /\ \A q \in Callers : q < p => pc[q] # "idle"
    /\ IF ~realip.some
       THEN Answer("/carbon/intensity", <<>>, error_response(ApiInvalidRequest))
       ELSE IF ~parse(realip.v).ok
       THEN Answer("/carbon/intensity", <<>>, error_response(ApiInternal))
       ELSE BeginWithin(p, Ip(parse(realip.v).addr), MaxHttpCalls)

TickHttp == TickWithin(MaxHttpTime, MaxHttpCalls)

\* the HTTP application: the token bucket the middleware is declared with, or the
\* sliding window Application::build makes, of one request a window and of a
\* store that is reachable or not
InitHttp == BuiltFor({"TB", "SW"}, BOOLEAN) /\ size = 1 /\ duration = SetMax(Durations)

NextHttp ==
    \/ Application_build
    \/ \E ip \in ClientIps : health_check(ip)
    \/ \E p \in Callers, realip \in RealIps : get_carbon_intensity(p, realip)
    \/ \E p \in Callers : Abort(p)
    \/ \E p \in Callers : TokenBucketCheck(p)
    \/ \E p \in Callers : SlidingWindowCheck(p)
    \/ TickHttp

SpecHttp == InitHttp /\ [][NextHttp]_vars

\* build_request_key alone: each caller builds the key of one identifier of the
\* bounded universe, and no check is made
BuildRequestKey(p, id) ==
    /\ ident[p] = NoIdentifier
    /\ \A q \in Callers : q < p => ident[q] # NoIdentifier
    /\ ident' = [ident EXCEPT ![p] = id]
    /\ key' = [key EXCEPT ![p] = build_request_key(id)]
    /\ UNCHANGED <<builder, passed, redis_client, reply, middleware, responses,
                   reachable, variant, size, duration, now, store, pc, ts, dirty, retried, log,
                   lastRetried>>

InitKey == Built({"TB"}) /\ size = MaxSize /\ duration = StartTime

NextKey == \E p \in Callers, id \in RequestIdentifier : BuildRequestKey(p, id)

SpecKey == InitKey /\ [][NextKey]_vars

----------------------------------------------------------------------------
(* The calls that returned, read as a history *)

Entries == 1..Len(log)

KeyOf(i) == log[i].key

IsAllowed(i) == log[i].kind = "Allowed"

IsThrottled(i) == log[i].kind = "Throttled"

\* the call that created the state entry i's call found or made
RECURSIVE CreatedAtOrBefore(_, _)
CreatedAtOrBefore(j, i) ==
    IF j = 1 \/ (log[j].fresh /\ KeyOf(j) = KeyOf(i))
    THEN j
    ELSE CreatedAtOrBefore(j - 1, i)

WindowStart(i) == CreatedAtOrBefore(i, i)

\* the calls on entry i's key since its state was created, up to entry i
WindowOf(i) == {j \in WindowStart(i)..i : KeyOf(j) = KeyOf(i)}

\* the call on entry i's key before entry i (entry i itself when there is none)
PreviousOnKey(i) ==
    LET earlier == {j \in 1..(i - 1) : KeyOf(j) = KeyOf(i)}
    IN  IF earlier = {} THEN i ELSE SetMax(earlier)

\* entry i is the N-th check of its window
NthInWindow(i) == Cardinality(WindowOf(i))

\* the earlier calls of entry i's window that were allowed and, for the sliding
\* window, whose timestamps are in the window that ends at entry i's timestamp
AllowedBefore(i) ==
    {j \in WindowOf(i) :
        /\ j < i
        /\ IsAllowed(j)
        /\ variant = "SW" => /\ log[i].ts - duration <= log[j].ts
                             /\ log[j].ts <= log[i].ts}

----------------------------------------------------------------------------
(* Claims *)

C2_AtMostSizePerWindow ==
    variant = "SW" =>
        \A i \in Entries :
            IsAllowed(i) =>
                Cardinality({j \in Entries :
                                /\ KeyOf(j) = KeyOf(i)
                                /\ IsAllowed(j)
                                /\ log[i].ts <= log[j].ts
                                /\ log[j].ts <= log[i].ts + duration}) <= size

C4_SlidingRemainingCountsDown ==
    variant = "SW" =>
        \A i \in Entries :
            LET mine == {j \in 1..i : KeyOf(j) = KeyOf(i)}
                first == CHOOSE j \in mine : \A k \in mine : j <= k
            IN  ( /\ Cardinality(mine) <= size
                  /\ \A j, k \in mine : j <= k => log[j].ts <= log[k].ts
                  /\ log[i].ts - log[first].ts <= duration )
                => IsAllowed(i) /\ log[i].val = size - Cardinality(mine)

\* C5: once limit checks of a window were Allowed, every further check in that
\* window returns Throttled with retry_in > 0.
C5_ThrottledWithPositiveRetry ==
    \A i \in Entries :
        Cardinality(AllowedBefore(i)) >= size => IsThrottled(i) /\ log[i].val > 0

C7_KeyInjective ==
    \A p, q \in Callers :
        ( /\ ident[p] # NoIdentifier
          /\ ident[q] # NoIdentifier
          /\ ident[p] # ident[q] )
        => key[p] # key[q]

\* C8: the key of Ip(a) is "rl:ip_" followed by the textual address, the key of
\* Custom{k, v} is "rl:cst_" followed by k, ":" and v; building a key always
\* gives a key and leaves the store as it was.
C8_KeyFormat ==
    /\ store = [k \in Keys |-> Absent]
    /\ \A p \in Callers :
        LET id == ident[p]
            s == key[p]
        IN  /\ id.tag = "Ip" =>
                /\ Len(s) = 6 + Len(IpDisplay(id.ip))
                /\ SubSeq(s, 1, 6) = <<"r", "l", ":", "i", "p", "_">>
                /\ SubSeq(s, 7, Len(s)) = IpDisplay(id.ip)
            /\ id.tag = "Custom" =>
                /\ Len(s) = 8 + Len(id.key) + Len(id.value)
                /\ SubSeq(s, 1, 7) = <<"r", "l", ":", "c", "s", "t", "_">>
                /\ SubSeq(s, 8, 7 + Len(id.key)) = id.key
                /\ s[8 + Len(id.key)] = ":"
                /\ SubSeq(s, 9 + Len(id.key), Len(s)) = id.value

\* C8 witness: the keys of 1.2.3.4 and of a client id whose value holds a ':'
C8_Witness ==
    /\ \E p \in Callers :
        /\ ident[p] = Ip(<<1, 2, 3, 4>>)
        /\ key[p] = <<"r", "l", ":", "i", "p", "_", "1", ".", "2", ".", "3", ".", "4">>
    /\ \E p \in Callers :
        /\ ident[p] = Custom(<<"a">>, <<":", "a">>)
        /\ key[p] = <<"r", "l", ":", "c", "s", "t", "_", "a", ":", ":", "a">>

\* C9: independence across identities: checks made for other identifiers do not
\* change the decision an identifier receives, so its first check is decided as
\* for a fresh identity, Allowed with limit - 1 remaining.
C9_OthersDoNotChangeDecision ==
    variant \in {"TB", "FW"} =>
        \A i \in Entries :
            (\A j \in 1..(i - 1) : log[j].id # log[i].id)
            => IsAllowed(i) /\ log[i].val = size - 1

\* C10: token bucket and fixed window: the check that follows the expiry of a
\* key creates the state again and returns Allowed with limit - 1 remaining.
C10_FullAgainAfterExpiry ==
    variant \in {"TB", "FW"} =>
        \A i \in Entries :
            (log[i].fresh /\ \E j \in 1..(i - 1) : KeyOf(j) = KeyOf(i))
            => /\ IsAllowed(i) /\ log[i].val = size - 1
               /\ log[i].at >= log[WindowStart(PreviousOnKey(i))].at
                                   + from_secs(as_secs(duration))

\* C10 witness: a key was used up, a check on it was throttled, the key expired
\* and the next check on it was allowed
C10_Witness ==
    /\ variant \in {"TB", "FW"}
    /\ \E i \in Entries :
        /\ log[i].fresh
        /\ IsAllowed(i)
        /\ \E j \in 1..(i - 1) : KeyOf(j) = KeyOf(i) /\ IsThrottled(j)

\* the last call that returned on entry i's key is entry i
LastOnKey(i) == \A j \in Entries : j > i => KeyOf(j) # KeyOf(i)

C12_LifetimeIsDuration ==
    \A i \in Entries :
        (LastOnKey(i) /\ log[i].kind \in {"Allowed", "Throttled"})
        => /\ store[KeyOf(i)].exists => store[KeyOf(i)].exp # NoTTL
           /\ Live(store[KeyOf(i)], now) =>
                 store[KeyOf(i)].exp
                     = (IF variant = "SW" THEN log[i].at ELSE log[WindowStart(i)].at)
                       + duration

\* the Allowed entries on entry i's key made at times from..to
AllowedBetween(i, from, to) ==
    {j \in Entries :
        /\ KeyOf(j) = KeyOf(i)
        /\ IsAllowed(j)
        /\ from <= log[j].at
        /\ log[j].at <= to}

\* C13: token bucket and fixed window: the Allowed responses on a key inside any
\* time interval whose length is the configured duration are at most 2 * limit.
C13_AtMostTwiceLimit ==
    variant \in {"TB", "FW"} =>
        \A i \in Entries :
            Cardinality(AllowedBetween(i, log[i].at, log[i].at + duration)) <= 2 * size

\* C14: token bucket: in a period no longer than bucket_validity that spans two
\* adjacent bucket windows, the Allowed responses on a key are at most bucket_size.
C14_AtMostSizeAcrossWindows ==
    variant = "TB" =>
        \A i, j \in Entries :
            ( /\ KeyOf(i) = KeyOf(j)
              /\ log[i].at <= log[j].at
              /\ log[j].at - log[i].at <= duration
              /\ WindowStart(i) < WindowStart(j) )
            => Cardinality(AllowedBetween(i, log[i].at, log[j].at)) <= size

\* this step is the return of a sliding window check with a decision
SlidingWindowDecided ==
    /\ variant = "SW"
    /\ Len(log') = Len(log) + 1
    /\ log'[Len(log')].kind \in {"Allowed", "Throttled"}

\* the timestamps the store holds for the key of the check that returns in this
\* step, before the check, and the timestamp of the check itself
StoredBefore ==
    LET e == log'[Len(log')]
    IN  (IF store[e.key].exists THEN store[e.key].zset ELSE {}) \cup {e.ts}

\* C15: sliding window: a check at time now is Allowed if and only if the stored
\* timestamps t with now - window_duration <= t <= now, the current request
\* counted, are at most window_size.
C15_AllowedIffCountInWindow ==
    [][SlidingWindowDecided =>
         LET e == log'[Len(log')]
             n == Cardinality({t \in StoredBefore :
                                  e.ts - duration <= t /\ t <= e.ts})
         IN  (e.kind = "Allowed") <=> (n <= size)]_vars

\* C15 as amended: the stored timestamps counted are those with
\* now - window_duration <= t, later than now or not.
C15_AllowedIffCountFromWindowStart ==
    [][SlidingWindowDecided =>
         LET e == log'[Len(log')]
             n == Cardinality({t \in StoredBefore : e.ts - duration <= t})
         IN  (e.kind = "Allowed") <=> (n <= size)]_vars

\* C15 witness: a check that read the clock before another check and ran after
\* it found the later timestamp stored, counted it and was Throttled
C15_Witness ==
    /\ variant = "SW"
    /\ \E i, j \in Entries :
        /\ i < j
        /\ KeyOf(i) = KeyOf(j)
        /\ log[i].ts > log[j].ts
        /\ IsThrottled(j)
        /\ {log[i].ts, log[j].ts} \subseteq store[KeyOf(j)].zset

\* the first n calls that returned were made one after the other for one key, with
\* clock readings that grow from call to call
Sequential(n) ==
    /\ Len(log) >= n
    /\ \A i \in 1..n : KeyOf(i) = KeyOf(1) /\ log[i].kind \in {"Allowed", "Throttled"}
    /\ \A i \in 1..(n - 1) : log[i].ts < log[i + 1].ts /\ log[i].at <= log[i + 1].ts

\* C16: sliding window, scenario E3: window_size Allowed checks of a fresh
\* identity, then a Throttled one; the check made as soon as the oldest timestamp
\* (and no other) has left the window is Allowed, and the check after it, made
\* before another timestamp leaves the window, is Throttled.
C16_OneMoreAfterOldestLeaves ==
    LET scenario ==
            /\ Sequential(size + 2)
            /\ \A i \in 1..size : IsAllowed(i)
            /\ IsThrottled(size + 1)
            /\ log[size + 2].ts = log[1].ts + duration + 1
        another ==
            /\ Sequential(size + 3)
            /\ log[size + 3].ts <= log[2].ts + duration
    IN  (variant = "SW" /\ scenario) =>
            /\ IsAllowed(size + 2)
            /\ another => IsThrottled(size + 3)

\* C17: token bucket and fixed window: after a check returned Throttled{retry_in},
\* a check for the same identifier made retry_in later returns Allowed, whatever
\* other checks were made for it in between.
C17_AllowedAfterRetryIn ==
    variant \in {"TB", "FW"} =>
        \A i, j \in Entries :
            ( /\ i < j
              /\ log[i].id = log[j].id
              /\ IsThrottled(i)
              /\ log[j].at = log[i].at + log[i].val )
            => IsAllowed(j)

\* C18: sliding window: after a check returned Throttled{retry_in}, the next
\* check for the same identifier, made retry_in later, returns Allowed.
C18_SlidingAllowedAfterRetryIn ==
    variant = "SW" =>
        \A i \in Entries :
            ( /\ i + 1 \in Entries
              /\ log[i].id = log[i + 1].id
              /\ IsThrottled(i)
              /\ log[i].at <= log[i + 1].ts
              /\ log[i + 1].ts = log[i].ts + log[i].val )
            => IsAllowed(i + 1)

\* C19: a check made by a limiter whose store is unreachable returns IoError and
\* no decision, whatever the variant and the identifier, and changes nothing in
\* the store; and every error of the redis client is returned as InitError when
\* its kind is InvalidClientConfig, as IoError otherwise.
C19_StoreErrorsAreReported ==
    /\ ~reachable =>
          /\ \A i \in Entries : log[i].kind = IoError.kind /\ log[i].cause = "IoError"
          /\ \A k \in Keys : store[k] = Absent
    /\ \A i \in Entries :
          log[i].cause # "" =>
              log[i].kind = IF log[i].cause = "InvalidClientConfig"
                            THEN InitError.kind ELSE IoError.kind

\* C19 happens: checks for two different identifiers were made against an
\* unreachable store, and each returned IoError.
C19_Witness ==
    /\ ~reachable
    /\ \E i, j \in Entries :
          /\ log[i].id # log[j].id
          /\ log[i].kind = IoError.kind
          /\ log[j].kind = IoError.kind

\* C20: a check whose transaction the store ran returns Allowed or Throttled: a
\* call returns an error only when the redis client reported one, and the token
\* bucket and the fixed window never return ComputeError.
C20_SuccessfulTransactionDecides ==
    /\ \A i \in Entries :
          log[i].cause = "" => (IsAllowed(i) \/ IsThrottled(i))
    /\ variant \in {"TB", "FW"} =>
          \A i \in Entries : log[i].kind # ComputeError.kind

\* the settings the builder holds, or the default ones
SettingsOf(b) ==
    unwrap_or(b.redis_settings, [host |-> DEFAULT_REDIS_HOST, port |-> DEFAULT_REDIS_PORT])

\* the settings the builder holds are well formed: the host is a plain host name
\* or address
WellFormed(b) ==
    LET host == SettingsOf(b).host
    IN  host # <<>> /\ \A i \in 1..Len(host) : host[i] \notin {"@", " "}

\* C21: build() makes no round trip to the store: with well-formed settings it
\* returns a limiter, also when no store listens at the address; the store is
\* then untouched, and the failure shows at the checks, each of which returns
\* IoError.
C21_BuildDoesNotConnect ==
    /\ (builder.result # "none" /\ WellFormed(builder)) => builder.result = "Ok"
    /\ (builder.result = "Ok" /\ ~reachable) =>
          /\ \A k \in Keys : store[k] = Absent
          /\ InFlight = {}
          /\ \A i \in Entries : log[i].kind = IoError.kind /\ log[i].cause = "IoError"

\* C21 happens: a limiter was built with settings naming a store that does not
\* listen, and its first and its second check returned IoError.
C21_Witness ==
    /\ builder.result = "Ok"
    /\ builder.redis_settings.some
    /\ ~reachable
    /\ Len(log) = 2
    /\ \A i \in Entries : log[i].kind = IoError.kind

\* C22: whatever setters were called and in whatever order, build() returns a
\* limiter, and its size, duration and store address are the values last passed
\* to the setters, or the defaults for the setters never called.
C22_BuiltAsConfigured ==
    builder.result # "none" =>
        /\ builder.result = "Ok"
        /\ size = unwrap_or(passed.size, DefaultSize)
        /\ duration = unwrap_or(passed.duration, DefaultDuration)
        /\ redis_client = unwrap_or(passed.redis_settings,
                                    [host |-> DEFAULT_REDIS_HOST, port |-> DEFAULT_REDIS_PORT])

\* C23: build() returns no limiter of size 0 or of a zero duration.
C23_BuildValidates ==
    builder.result = "Ok" => (size >= 1 /\ duration > 0)

\* C24: an EXEC aborted because the watched key was touched is not returned to
\* the caller: with a reachable store, a call whose EXEC was aborted runs its
\* transaction again, and when it returns it returns a decision.
C24_RetriedUntilDecided ==
    lastRetried => (IsAllowed(Len(log)) \/ IsThrottled(Len(log)))

C29_NoTtlMeansRetryNow ==
    (/\ variant \in {"TB", "FW"}
     /\ reachable
     /\ log # <<>>
     /\ store[KeyOf(Len(log))].exists
     /\ store[KeyOf(Len(log))].exp = NoTTL)
    => /\ IsAllowed(Len(log)) \/ IsThrottled(Len(log))
       /\ IsThrottled(Len(log)) => log[Len(log)].val = 0

\* C30: sliding window: when the check is throttled (request_count is more than
\* window_size) and the list of newest timestamps the store replied is empty, the
\* decision is Throttled with retry_in = window_duration
C30_EmptyListRetryIsDuration ==
    (/\ reply.response.kind # ""
     /\ reply.request_count > size
     /\ reply.oldest_requests_in_current_window = <<>>)
    => reply.response = RequestThrottled(duration)

\* the responses sent to the request whose check is entry e of the log
ResponsesTo(e) == {r \in BagToSet(responses) : r.entry = e}

\* C26: the middleware fails open: whenever the check of a request returned an
\* error, the request was forwarded to the inner service exactly once and exactly
\* one response was sent, which is the response of the inner service and has no
\* X-Remaining-Request header
C26_FailsOpen ==
    \A e \in Entries :
        (middleware /\ log[e].kind \in {IoError.kind, InitError.kind, ComputeError.kind})
        => /\ Cardinality(ResponsesTo(e)) = 1
           /\ \A r \in ResponsesTo(e) :
                  /\ CopiesIn(r, responses) = 1
                  /\ r.forwarded = 1
                  /\ r.status = get_intensity.status
                  /\ r.body = get_intensity.body
                  /\ r.retry_after = get_intensity.retry_after
                  /\ r.x_remaining_request = None

\* C26: the store is unreachable, two requests were made and both were answered
\* 200 by the inner service
C26_Witness ==
    /\ middleware
    /\ ~reachable
    /\ Len(log) = 2
    /\ \A e \in Entries :
           /\ log[e].kind = IoError.kind
           /\ \E r \in ResponsesTo(e) : r.status = OK /\ r.forwarded = 1

\* C27: after window_size admitted requests of one address inside a window, the
\* next request of that address, when its check returns a decision, is answered 429
\* with Retry-After = retry_in in whole seconds and is not forwarded; a request of
\* an address that made none in its window is forwarded and answered 200
C27_ThrottledAfterLimit ==
    \A e \in Entries : \A r \in ResponsesTo(e) :
        (middleware /\ (IsAllowed(e) \/ IsThrottled(e)))
        => /\ Cardinality(AllowedBefore(e)) >= size
              => /\ r.status = TOO_MANY_REQUESTS
                 /\ r.retry_after = Some(as_secs(log[e].val))
                 /\ r.forwarded = 0
           /\ NthInWindow(e) = 1 => r.status = OK /\ r.forwarded = 1

\* C28: the requests of /health_check are never answered 429, whatever their
\* number, and answering one leaves the store, and the transactions under way
\* on its keys, as they were
C28_HealthCheckNotLimited ==
    [][/\ \A r \in BagToSet(responses') :
              r.path = "/health_check" => r.status = OK
       /\ (\E r \in BagToSet(responses') :
              /\ r.path = "/health_check"
              /\ CopiesIn(r, responses') > CopiesIn(r, responses))
          => store' = store /\ dirty' = dirty /\ log' = log]_vars

\* C28: an address made more requests of /health_check than window_size, all
\* answered 200, and was throttled on /carbon/intensity; its key holds the state of
\* its checks on /carbon/intensity only
C28_Witness ==
    \E ip \in ClientIps :
        /\ \E r \in BagToSet(responses) :
               /\ r.path = "/health_check" /\ r.ip = ip /\ r.status = OK
               /\ CopiesIn(r, responses) > size
        /\ \E r \in BagToSet(responses) :
               r.path = "/carbon/intensity" /\ r.ip = ip /\ r.status = TOO_MANY_REQUESTS
        /\ variant = "TB"
        /\ store[build_request_key(Ip(ip))].exists
        /\ store[build_request_key(Ip(ip))].val = size - Len(log)

\* C31: sliding window: whatever the interleaving of the checks of one identity, a
\* check whose transaction is about to run and to be throttled uses an oldest
\* timestamp (the last of the newest ones the store replies) that is not later
\* than its own clock reading, so that now - oldest does not underflow
C31_NoUnderflow ==
    variant = "SW" =>
        \A p \in Callers :
            (pc[p] = "exec" /\ ~dirty[p]) =>
                LET tx == SlidingWindowTransaction(store[key[p]], now, ts[p],
                                                   ts[p] - duration)
                    l == tx.oldest_requests_in_current_window
                IN  tx.request_count > size => l[Len(l)] <= ts[p]

\* C32: sliding window: the list of timestamps the transaction of a check replies
\* is the list of the window_size newest timestamps stored (LIMIT 0 window_size),
\* whose last element is the oldest timestamp of the window the check uses
C32_ListOfWindowSize ==
    variant = "SW" =>
        \A p \in Callers :
            (pc[p] = "exec" /\ ~dirty[p]) =>
                LET tx == SlidingWindowTransaction(store[key[p]], now, ts[p],
                                                   ts[p] - duration)
                IN  tx.oldest_requests_in_current_window
                        = ZREVRANGEBYSCORE(tx.rec.zset, size)

\* C33: sliding window: every check that returned a decision, Allowed or Throttled,
\* set the time to live of the key to window_duration: while no later check was
\* made on the key, the key exists until window_duration after that check
C33_TtlResetEachCheck ==
    variant = "SW" =>
        \A i \in Entries :
            (LastOnKey(i) /\ (IsAllowed(i) \/ IsThrottled(i)) /\ now < log[i].at + duration)
            => /\ store[KeyOf(i)].exists
               /\ store[KeyOf(i)].exp = log[i].at + duration

-----------------------------------------------------------------------------
(* The sliding window when the clock is before the epoch, or past the u64 range *)

MaxEpochCalls == 3

MaxEpochTime == 4

\* SystemTime::now(): a reading just before the epoch, and the last one whose
\* count fits u64
EpochReadings == {-1, U64_MAX}

InitEpoch == BuiltAt({"SW"}, {TRUE}, EpochReadings)

BeginEpoch(p, id) == BeginWithin(p, id, MaxEpochCalls)

TickEpoch ==
    \E start \in EpochReadings :
        /\ now >= start
        /\ now < start + MaxEpochTime
        /\ TickWithin(now - StartTime + 1, MaxEpochCalls)

NextEpoch ==
    \/ \E p \in Callers, id \in Requesters : BeginEpoch(p, id)
    \/ \E p \in Callers : Abort(p)
    \/ \E p \in Callers : SlidingWindowCheck(p)
    \/ TickEpoch

SpecEpoch == InitEpoch /\ [][NextEpoch]_vars

\* C34: a check whose clock reading is before the epoch, or whose count does not
\* fit u64, returns ComputeError, and the sorted set holds no timestamp but the
\* readings of the checks that did not fail: none is stored truncated
C34_OutOfRangeIsComputeError ==
    variant = "SW" =>
        /\ \A e \in Entries :
               (log[e].ts < 0 \/ log[e].ts > U64_MAX) => log[e].kind = ComputeError.kind
        /\ \A k \in Keys :
               \A m \in store[k].zset :
                   \E e \in Entries : log[e].ts = m /\ log[e].kind # ComputeError.kind

\* the checks of key k that returned a decision since the bucket the store holds
\* for k was created: the bucket expires as_secs(duration) after its creation
ChecksOfBucket(k) ==
    {i \in Entries : /\ KeyOf(i) = k
                     /\ IsAllowed(i) \/ IsThrottled(i)
                     /\ log[i].at >= store[k].exp - from_secs(as_secs(duration))}

C36_KeyHasTtl ==
    (/\ log # <<>>
     /\ IsAllowed(Len(log)) \/ IsThrottled(Len(log))
     /\ log[Len(log)].at = now)
    => /\ store[KeyOf(Len(log))].exists
       /\ store[KeyOf(Len(log))].exp # NoTTL

-----------------------------------------------------------------------------
(* A token bucket and a fixed window built with the same size and the same
   duration, checked one after the other at the same times.  Each limiter checks
   an identifier of its own, so each has a key of its own in the store; variant
   is the limiter that checks next. *)

MaxPairCalls == 4

MaxPairTime == 6

\* the identifier each limiter of the pair checks
PairIdentity(v) == IF v = "TB" THEN Ip(<<1, 2, 1, 2>>) ELSE Ip(<<2, 1, 2, 1>>)

PairKey(v) == build_request_key(PairIdentity(v))

\* the record of the check of limiter v that returned response
PairReturned(v, response) ==
    [id |-> PairIdentity(v), key |-> PairKey(v), kind |-> response.kind,
     val |-> response.val, at |-> now, ts |-> 0, fresh |-> ~store[PairKey(v)].exists,
     cause |-> IF response.kind = IoError.kind THEN "TypeError" ELSE ""]

InitPair == Built({"TB"})

\* TokenBucketRateLimiter::check_request of the pair's token bucket
TokenBucketOfPair ==
    /\ variant = "TB"
    /\ Len(log) < 2 * MaxPairCalls
    /\ LET tx == TokenBucketTransaction(store[PairKey("TB")], now)
       IN  \E expire_in_seconds \in from_redis_value_u64(tx.expire_in_seconds) :
               /\ store' = [store EXCEPT ![PairKey("TB")] = tx.rec]
               /\ log' = Append(log, PairReturned("TB",
                             TokenBucketResponse(tx.remaining_tokens, expire_in_seconds)))
    /\ variant' = "FW"
    /\ UNCHANGED <<builder, passed, redis_client, reply, middleware, responses,
                   reachable, size, duration, now, pc, ident, key, ts, dirty, retried,
                   lastRetried>>

\* FixedWindowRateLimiter::check_request of the pair's fixed window, at the time of
\* the token bucket's check
FixedWindowOfPair ==
    /\ variant = "FW"
    /\ LET tx == FixedWindowTransaction(store[PairKey("FW")], now)
       IN  \E expire_in_seconds \in from_redis_value_u64(tx.expire_in_seconds) :
               /\ store' = [store EXCEPT ![PairKey("FW")] = tx.rec]
               /\ log' = Append(log, PairReturned("FW",
                             FixedWindowResponse(tx.executed_request_counter,
                                                 expire_in_seconds)))
    /\ variant' = "TB"
    /\ UNCHANGED <<builder, passed, redis_client, reply, middleware, responses,
                   reachable, size, duration, now, pc, ident, key, ts, dirty, retried,
                   lastRetried>>

\* time passes between two checks of the pair
TickPair == variant = "TB" /\ TickWithin(MaxPairTime, 2 * MaxPairCalls)

NextPair ==
    \/ TokenBucketOfPair
    \/ FixedWindowOfPair
    \/ TickPair

SpecPair == InitPair /\ [][NextPair]_vars

C38_ThrottledIsCounted ==
    (/\ variant = "SW"
     /\ log # <<>>
     /\ IsAllowed(Len(log)) \/ IsThrottled(Len(log))
     /\ log[Len(log)].at = now)
    => \A i \in Entries :
           (/\ KeyOf(i) = KeyOf(Len(log))
            /\ IsThrottled(i)
            /\ log[i].ts >= log[Len(log)].ts - duration)
           => log[i].ts \in store[KeyOf(i)].zset

\* C39: for every variant, a step in which a check returns an error (IoError,
\* InitError, ComputeError) leaves every key of the store, the key of that check
\* included, as it was: its counter or timestamps and its time to live
C39_ErrorLeavesStore ==
    [][(/\ Len(log') = Len(log) + 1
        /\ log'[Len(log')].kind \in {IoError.kind, InitError.kind, ComputeError.kind})
       => store' = store]_vars

====
